---- MODULE Spec2Model ----
(***************************************************************************)
(* A model of the timed-map store: the TimedMap facade (src/src/index.ts), *)
(* its Driver (src/src/driver.ts) and its event bus                        *)
(* (src/src/events/constants.js, class Events).                            *)
(*                                                                         *)
(* Time is the integer `now` (the value of Date.now()); one handler runs   *)
(* within one instant.  A JavaScript value that may be undefined or null   *)
(* is a sequence of length 0 (undefined / null) or 1 (the value).          *)
(***************************************************************************)
EXTENDS Integers, Sequences, FiniteSets, TLC

VARIABLES
    now,          \* Date.now()
    maxAge,       \* Driver._maxAge
    memoObject,   \* Driver._memoObject, in property (insertion) order
    pruneDate,    \* Driver._pruneDate
    timer,        \* Driver._timer: the handle setTimeout returned last
    timers,       \* the runtime's pending sweep timeouts: [id, at]
    listeners,    \* Events._listeners: the registrations [n, type, listen, once]
    entryCounter, \* Events._entryCounter
    tasks,        \* the runtime's pending deferred listener batches, oldest first
    calls,        \* the listener invocations the deferred batches made, in order
    seen,         \* the length of data.removed each of them read (0: no array)
    closed,       \* TimedMap._driver has been deleted
    closeLog,     \* what close() did, in order
    ret,          \* how the last public operation ended
    quiet         \* the consumer has stopped calling the store

vars == <<now, maxAge, memoObject, pruneDate, timer, timers, listeners,
          entryCounter, tasks, calls, seen, closed, closeLog, ret, quiet>>

-----------------------------------------------------------------------------
(* Bounds of the model *)

MaxTime == 3

MaxTTL == 2

MaxSubs == 2

MaxTimeClose == 1

\* the deferred batches that may be pending at once
MaxTasks == 2

\* the listener invocations the deferred batches make in all
MaxCalls == 3

(* Program constants *)

TTL30MINS == 1800000

Keys == {"a", "b"}

Values == {"x"}

undefined == <<>>

null == <<>>

DELIMITER == "@@@"

EVENT_TYPE == {"AUTO_RENEWED", "CLEARED", "CLOSING", "PRUNED", "PUT", "REMOVED"}

(* what the callers pass *)
TTLInputs == {undefined} \cup {<<t>> : t \in 1..MaxTTL}

\* the numbers given as maxEntryAgeMillis, in halves of a millisecond, so that
\* non-integers occur: 2n stands for n, 2n + 1 for n + 0.5
MaxAgeInputs == (-2)..(2 * MaxTTL)

\* the event types a consumer may name: the six, and one that is none of them
TypeInputs == EVENT_TYPE \cup {"CLOSE"}

-----------------------------------------------------------------------------
(* JavaScript helpers *)

\* a ?? b
Coalesce(a, b) == IF a = undefined THEN b ELSE a[1]

\* the number a value (or null) is in arithmetic
ToNumber(a) == IF a = null THEN 0 ELSE a[1]

Max(a, b) == IF a >= b THEN a ELSE b

MinOf(S) == CHOOSE x \in S : \A y \in S : x <= y

\* the state a handler works on
State == [maxAge |-> maxAge, memoObject |-> memoObject, pruneDate |-> pruneDate,
          timer |-> timer, timers |-> timers, listeners |-> listeners,
          entryCounter |-> entryCounter, tasks |-> tasks, calls |-> calls,
          seen |-> seen]

\* Object.keys( this._memoObject )
ObjectKeys(m) == [i \in 1..Len(m) |-> m[i].key]

\* key in this._memoObject
In(key, m) == \E i \in 1..Len(m) : m[i].key = key

IndexOf(key, m) == CHOOSE i \in 1..Len(m) : m[i].key = key

\* delete this._memoObject[ key ]
Delete(m, key) == SelectSeq(m, LAMBDA e : e.key # key)

\* this._memoObject[ key ] = entry: an existing property keeps its place
Assign(m, entry) ==
    IF In(entry.key, m)
        THEN [m EXCEPT ![IndexOf(entry.key, m)] = entry]
        ELSE Append(m, entry)

\* clearTimeout( handle ): a handle that is null or has fired cancels nothing
clearTimeout(s, handle) ==
    [s EXCEPT !.timers = {t \in @ : <<t.id>> # handle}]

\* this._timer = setTimeout( () => this._prune(), delay )
setTimeout(s, delay) ==
    LET used == {t.id : t \in s.timers} \cup {s.timer[i] : i \in 1..Len(s.timer)}
        id == MinOf((0..(Cardinality(used))) \ used)
    IN  [s EXCEPT !.timers = @ \cup {[id |-> id, at |-> now + delay]},
                  !.timer = <<id>>]

-----------------------------------------------------------------------------
(* Events *)

OfType(s, type) == {l \in s.listeners : l.type = type}

\* the registrations of a set, in property order (ascending index)
RECURSIVE InOrder(_)
InOrder(L) ==
    IF L = {} THEN <<>>
    ELSE LET first == CHOOSE l \in L : \A o \in L : l.n <= o.n
         IN  <<first>> \o InOrder(L \ {first})

_hasTypeListeners(s, type) == OfType(s, type) # {}

\* mutant: the PUT projection names the two entries the other way round
getEventData_swapped(type, args) ==
    CASE type = "AUTO_RENEWED" ->
            <<[key |-> args[1], createdAt |-> args[2], previouslyCreatedAt |-> args[3]]>>
      [] type \in {"CLEARED", "PRUNED", "REMOVED"} -> <<[removed |-> args[1]]>>
      [] type = "PUT" -> <<[current |-> args[2], previous |-> args[1]]>>
      [] OTHER -> undefined

\* the data projection of an event: the switch has no case for CLOSING
getEventData(type, args) ==
    CASE type = "AUTO_RENEWED" ->
            <<[key |-> args[1], createdAt |-> args[2], previouslyCreatedAt |-> args[3]]>>
      [] type \in {"CLEARED", "PRUNED", "REMOVED"} -> <<[removed |-> args[1]]>>
      [] type = "PUT" -> <<[current |-> args[1], previous |-> args[2]]>>
      [] OTHER -> undefined

\* makeImmutable( data ): the parts of the data of an event that end frozen.
\* An object that is no array is frozen after its properties; for an array
\* the elements are frozen, and then Object.freeze is given what forEach
\* returned, which is undefined: the array itself stays as it was
makeImmutable(type) ==
    CASE type \in {"CLEARED", "PRUNED"} -> {"data", "removed[i]"}
      [] type = "REMOVED" -> {"data", "removed"}
      [] type = "PUT" -> {"data", "current", "previous"}
      [] OTHER -> {"data"}

\* the payload the listeners of one emission share, or undefined with no listener
_calcSharedData(s, type, args) ==
    IF ~_hasTypeListeners(s, type) THEN undefined
    ELSE <<[data |-> getEventData(type, args), timestamp |-> now, type |-> type]>>

\* Events.emit: snapshot the listeners, drop the once ones, defer the batch
\* what the listeners ls leave in the record of invocations for an event
Invocations(ls, type) ==
    [i \in 1..Len(ls) |-> [n |-> ls[i].n, once |-> ls[i].once, type |-> type]]

\* mutant: the listeners are invoked within emit, nothing is scheduled
emit_sync(s, type, args) ==
    LET eventData == _calcSharedData(s, type, args)
    IN  IF eventData = undefined THEN s
        ELSE [s EXCEPT
                !.listeners = {l \in @ : ~(l.type = type /\ l.once)},
                !.calls = @ \o Invocations(InOrder(OfType(s, type)), type)]

\* mutant: the new batch is put ahead of the pending ones
emit_ahead(s, type, args) ==
    LET eventData == _calcSharedData(s, type, args)
    IN  IF eventData = undefined THEN s
        ELSE [s EXCEPT
                !.listeners = {l \in @ : ~(l.type = type /\ l.once)},
                !.tasks = <<[eventData |-> eventData[1],
                             listeners |-> InOrder(OfType(s, type))]>> \o @]

\* mutant: the once registrations stay after the snapshot
emit_keepsOnce(s, type, args) ==
    LET eventData == _calcSharedData(s, type, args)
    IN  IF eventData = undefined THEN s
        ELSE [s EXCEPT
                !.tasks = Append(@, [eventData |-> eventData[1],
                                      listeners |-> InOrder(OfType(s, type))])]

emit(s, type, args) ==
    LET eventData == _calcSharedData(s, type, args)
    IN  IF eventData = undefined THEN s
        ELSE [s EXCEPT
                !.listeners = {l \in @ : ~(l.type = type /\ l.once)},
                !.tasks = Append(@, [eventData |-> eventData[1],
                                      listeners |-> InOrder(OfType(s, type))])]

-----------------------------------------------------------------------------
(* Driver *)

\* mutant: an entry is prunable only after its TTL, not at it
_isPrunableEntry_late(s, e) == now - e.createdAt > Coalesce(e.ttl, s.maxAge)

\* mutant: the entry's own ttl is ignored
_isPrunableEntry_classTTL(s, e) == now - e.createdAt >= s.maxAge

\* checks if an entry has become prune-eligible
_isPrunableEntry(s, e) == now - e.createdAt >= Coalesce(e.ttl, s.maxAge)

\* lodash.isinteger, of a number given in halves
isInteger(x) == x % 2 = 0

\* the integer a number given in halves is, when it is one
Millis(x) == x \div 2

\* mutant: a value equal to the current one is taken as new
_isValidTTLInput_takesEqual(current, ttlInput) ==
    /\ isInteger(ttlInput)
    /\ ttlInput > 0

\* current is this._maxAge: null in the constructor, a number afterwards
_isValidTTLInput(current, ttlInput) ==
    /\ isInteger(ttlInput)
    /\ current # <<Millis(ttlInput)>>
    /\ ttlInput > 0

\* mutant: the emptied store keeps its timer and its sweep date
_tryResetAging_idle(s) == [s |-> s, val |-> Len(s.memoObject) = 0]

_tryResetAging(s) ==
    IF Len(s.memoObject) # 0
        THEN [s |-> s, val |-> FALSE]
        ELSE [s |-> [clearTimeout(s, s.timer) EXCEPT !.pruneDate = null],
              val |-> TRUE]

\* mutant: the timeout scheduled before is not cancelled
_tryStartAging_noCancel(s) ==
    IF Len(s.memoObject) = 0
        THEN [s |-> s, val |-> FALSE]
        ELSE [s |-> setTimeout([s EXCEPT !.pruneDate = <<now + s.maxAge>>], s.maxAge),
              val |-> TRUE]

_tryStartAging(s) ==
    IF Len(s.memoObject) = 0
        THEN [s |-> s, val |-> FALSE]
        ELSE [s |-> setTimeout(
                        [clearTimeout(s, s.timer) EXCEPT
                            !.pruneDate = <<now + s.maxAge>>],
                        s.maxAge),
              val |-> TRUE]

\* mutant: the event lists every entry the sweep looked at
_prune_reportsAll(s) ==
    LET data == SelectSeq(s.memoObject, LAMBDA e : _isPrunableEntry(s, e))
        s1 == [s EXCEPT !.memoObject =
                    SelectSeq(@, LAMBDA e : ~_isPrunableEntry(s, e))]
        reset == _tryResetAging(s1)
        s2 == IF reset.val THEN reset.s ELSE _tryStartAging(reset.s).s
    IN  IF Len(data) = 0 THEN s1 ELSE emit(s2, "PRUNED", <<s.memoObject>>)

\* mutant: the sweep goes on when it removed nothing, as the earlier revision
_prune_emitsAlways(s) ==
    LET data == SelectSeq(s.memoObject, LAMBDA e : _isPrunableEntry(s, e))
        s1 == [s EXCEPT !.memoObject =
                    SelectSeq(@, LAMBDA e : ~_isPrunableEntry(s, e))]
        reset == _tryResetAging(s1)
        s2 == IF reset.val THEN reset.s ELSE _tryStartAging(reset.s).s
    IN  emit(s2, "PRUNED", <<data>>)

_prune(s) ==
    LET data == SelectSeq(s.memoObject, LAMBDA e : _isPrunableEntry(s, e))
        s1 == [s EXCEPT !.memoObject =
                    SelectSeq(@, LAMBDA e : ~_isPrunableEntry(s, e))]
        reset == _tryResetAging(s1)
        s2 == IF reset.val THEN reset.s ELSE _tryStartAging(reset.s).s
    IN  IF Len(data) = 0 THEN s1 ELSE emit(s2, "PRUNED", <<data>>)

\* mutant: the entry is returned although it is prune-eligible
remove_returnsStale(s, key) ==
    IF ~In(key, s.memoObject) THEN [s |-> s, val |-> undefined]
    ELSE LET exEntry == <<s.memoObject[IndexOf(key, s.memoObject)]>>
             s1 == [s EXCEPT !.memoObject = Delete(@, key)]
             s2 == _tryResetAging(s1).s
         IN  [s |-> emit(s2, "REMOVED", <<exEntry>>), val |-> exEntry]

remove(s, key) ==
    IF ~In(key, s.memoObject) THEN [s |-> s, val |-> undefined]
    ELSE LET entry == s.memoObject[IndexOf(key, s.memoObject)]
             exEntry == IF _isPrunableEntry(s, entry) THEN undefined ELSE <<entry>>
             s1 == [s EXCEPT !.memoObject = Delete(@, key)]
             s2 == _tryResetAging(s1).s
         IN  [s |-> emit(s2, "REMOVED", <<exEntry>>), val |-> exEntry]

\* mutant: a prune-eligible entry is reported absent and left in place
has_leavesStale(s, key) ==
    IF ~In(key, s.memoObject) THEN [s |-> s, val |-> FALSE]
    ELSE IF _isPrunableEntry(s, s.memoObject[IndexOf(key, s.memoObject)])
        THEN [s |-> s, val |-> FALSE]
        ELSE [s |-> s, val |-> TRUE]

\* mutant: the check counts as a read and renews the entry
has_renews(s, key) ==
    IF ~In(key, s.memoObject) THEN [s |-> s, val |-> FALSE]
    ELSE IF _isPrunableEntry(s, s.memoObject[IndexOf(key, s.memoObject)])
        THEN LET r == remove(s, key) IN [s |-> r.s, val |-> r.val # undefined]
        ELSE [s |-> [s EXCEPT !.memoObject[IndexOf(key, s.memoObject)].createdAt = now],
              val |-> TRUE]

has(s, key) ==
    IF ~In(key, s.memoObject) THEN [s |-> s, val |-> FALSE]
    ELSE IF _isPrunableEntry(s, s.memoObject[IndexOf(key, s.memoObject)])
        THEN LET r == remove(s, key) IN [s |-> r.s, val |-> r.val # undefined]
        ELSE [s |-> s, val |-> TRUE]

_getEntry(s, key) ==
    LET h == has(s, key)
    IN  IF h.val
            THEN [s |-> h.s, val |-> <<h.s.memoObject[IndexOf(key, h.s.memoObject)]>>]
            ELSE [s |-> h.s, val |-> undefined]

\* mutant: a read that does not renew the entry
get_noRenew(s, key) ==
    LET h == has(s, key)
    IN  IF ~h.val THEN [s |-> h.s, val |-> undefined]
        ELSE [s |-> h.s,
              val |-> <<h.s.memoObject[IndexOf(key, h.s.memoObject)].value>>]

\* mutant: previouslyCreatedAt is read after the entry was stamped
get_emitsStale(s, key) ==
    LET h == has(s, key)
    IN  IF ~h.val THEN [s |-> h.s, val |-> undefined]
        ELSE LET i == IndexOf(key, h.s.memoObject)
                 createdAt == now
                 s1 == [h.s EXCEPT !.memoObject[i].createdAt = createdAt]
                 previouslyCreatedAt == s1.memoObject[i].createdAt
             IN  [s |-> emit(s1, "AUTO_RENEWED",
                             <<key, createdAt, previouslyCreatedAt>>),
                  val |-> <<s1.memoObject[i].value>>]

get(s, key) ==
    LET h == has(s, key)
    IN  IF ~h.val THEN [s |-> h.s, val |-> undefined]
        ELSE LET i == IndexOf(key, h.s.memoObject)
                 createdAt == now
                 previouslyCreatedAt == h.s.memoObject[i].createdAt
                 s1 == [h.s EXCEPT !.memoObject[i].createdAt = createdAt]
             IN  [s |-> emit(s1, "AUTO_RENEWED",
                             <<key, createdAt, previouslyCreatedAt>>),
                  val |-> <<s1.memoObject[i].value>>]

\* mutant: the entry is returned without being renewed
getEntry_noRenew(s, key) == _getEntry(s, key)

getEntry(s, key) ==
    LET g == _getEntry(s, key)
    IN  IF g.val = undefined THEN [s |-> g.s, val |-> undefined]
        ELSE LET i == IndexOf(key, g.s.memoObject)
                 createdAt == now
                 s1 == [g.s EXCEPT !.memoObject[i].createdAt = createdAt]
             IN  [s |-> emit(s1, "AUTO_RENEWED",
                             <<key, createdAt, g.val[1].createdAt>>),
                  val |-> g.val]

\* mutant: the value is read as get reads it
peak_renews(s, key) == get(s, key)

peak(s, key) ==
    LET g == _getEntry(s, key)
    IN  [s |-> g.s,
         val |-> IF g.val = undefined THEN undefined ELSE <<g.val[1].value>>]

\* mutant: the first entry of an empty store does not start the aging
put_noAging(s, key, value, ttl) ==
    LET g == _getEntry(s, key)
        entry == [createdAt |-> now, key |-> key, ttl |-> ttl, value |-> value]
        s1 == [g.s EXCEPT !.memoObject = Assign(@, entry)]
    IN  [s |-> emit(s1, "PUT", <<entry, g.val>>),
         val |-> g.val]

\* mutant: the prior entry is taken as stored, prune-eligible or not
put_staleReturn(s, key, value, ttl) ==
    LET exEntry == IF In(key, s.memoObject)
                      THEN <<s.memoObject[IndexOf(key, s.memoObject)]>>
                      ELSE undefined
        entry == [createdAt |-> now, key |-> key, ttl |-> ttl, value |-> value]
        s1 == [s EXCEPT !.memoObject = Assign(@, entry)]
        s2 == IF Len(s1.memoObject) = 1 THEN _tryStartAging(s1).s ELSE s1
    IN  [s |-> emit(s2, "PUT", <<entry, exEntry>>),
         val |-> exEntry]

\* mutant: a prune-eligible entry is overwritten in place, with no eviction
put_silentEviction(s, key, value, ttl) ==
    LET exEntry == IF In(key, s.memoObject)
                        /\ ~_isPrunableEntry(s, s.memoObject[IndexOf(key, s.memoObject)])
                       THEN <<s.memoObject[IndexOf(key, s.memoObject)]>>
                       ELSE undefined
        entry == [createdAt |-> now, key |-> key, ttl |-> ttl, value |-> value]
        s1 == [s EXCEPT !.memoObject = Assign(@, entry)]
        s2 == IF Len(s1.memoObject) = 1 THEN _tryStartAging(s1).s ELSE s1
    IN  [s |-> emit(s2, "PUT", <<entry, exEntry>>),
         val |-> exEntry]

put(s, key, value, ttl) ==
    LET g == _getEntry(s, key)
        entry == [createdAt |-> now, key |-> key, ttl |-> ttl, value |-> value]
        s1 == [g.s EXCEPT !.memoObject = Assign(@, entry)]
        s2 == IF Len(s1.memoObject) = 1 THEN _tryStartAging(s1).s ELSE s1
    IN  [s |-> emit(s2, "PUT", <<entry, g.val>>),
         val |-> g.val]

\* mutant: the entries already prune-eligible are left out of the event
clear_reportsFresh(s) ==
    IF Len(s.memoObject) = 0 THEN s
    ELSE LET s1 == [s EXCEPT !.memoObject = <<>>]
         IN  emit(_tryResetAging(s1).s, "CLEARED",
                  <<SelectSeq(s.memoObject, LAMBDA e : ~_isPrunableEntry(s, e))>>)

clear(s) ==
    IF Len(s.memoObject) = 0 THEN s
    ELSE LET s1 == [s EXCEPT !.memoObject = <<>>]
         IN  emit(_tryResetAging(s1).s, "CLEARED", <<s.memoObject>>)

keys(s) ==
    LET p == _prune(s) IN [s |-> p, val |-> ObjectKeys(p.memoObject)]

entries(s) ==
    LET p == _prune(s) IN [s |-> p, val |-> p.memoObject]

size(s) ==
    LET k == keys(s) IN [s |-> k.s, val |-> <<Len(k.val)>>]

isEmpty(s) ==
    LET k == keys(s) IN [s |-> k.s, val |-> <<Len(k.val) = 0>>]

\* mutant: the sweep is put off by a full new interval from now
setMaxEntryAge_restarts(s, maxEntryAgeMillis) ==
    IF ~_isValidTTLInput(<<s.maxAge>>, maxEntryAgeMillis) THEN s
    ELSE LET s1 == [s EXCEPT !.maxAge = Millis(maxEntryAgeMillis),
                             !.pruneDate = <<now + Millis(maxEntryAgeMillis)>>]
         IN  setTimeout(clearTimeout(s1, s1.timer), Millis(maxEntryAgeMillis))

\* set maxEntryAge
setMaxEntryAge(s, maxEntryAgeMillis) ==
    IF ~_isValidTTLInput(<<s.maxAge>>, maxEntryAgeMillis) THEN s
    ELSE LET startDate == ToNumber(s.pruneDate) - s.maxAge
             currentTimeElapsed == now - startDate
             s1 == [s EXCEPT !.maxAge = Millis(maxEntryAgeMillis),
                             !.pruneDate = <<startDate + Millis(maxEntryAgeMillis)>>]
             timeoutDelay == Millis(maxEntryAgeMillis) - currentTimeElapsed
         IN  setTimeout(clearTimeout(s1, s1.timer), Max(timeoutDelay, 0))

\* new Driver( maxEntryAgeMillis ): _maxAge is null while the input is validated
Driver(maxEntryAgeMillis) ==
    IF _isValidTTLInput(null, maxEntryAgeMillis)
        THEN Millis(maxEntryAgeMillis)
        ELSE TTL30MINS

\* new TimedMap( maxEntryAgeMillis ): the parameter defaults to TTL30MINS
TimedMap(maxEntryAgeMillis) ==
    Driver(IF maxEntryAgeMillis = undefined THEN 2 * TTL30MINS
                                            ELSE maxEntryAgeMillis[1])

-----------------------------------------------------------------------------
(* What the consumer holds after a call: the state the call left and, for each
   object handed out, the key of the stored entry that object is, or
   undefined when it is an object of its own *)

\* Object.values( this._memoObject ): a new array of the stored objects
ObjectValues(m) == [i \in 1..Len(m) |-> <<m[i].key>>]

\* cloneDeep( v ), and strings: no part of what is handed out is stored
Copies(v) == [i \in 1..Len(v) |-> undefined]

entriesHeld(s) ==
    LET p == _prune(s) IN [s |-> p, held |-> ObjectValues(p.memoObject)]

keysHeld(s) ==
    LET r == keys(s) IN [s |-> r.s, held |-> Copies(r.val)]

getEntryHeld(s, key) ==
    LET r == getEntry(s, key) IN [s |-> r.s, held |-> Copies(r.val)]

putHeld(s, key, value, ttl) ==
    LET r == put(s, key, value, ttl) IN [s |-> r.s, held |-> Copies(r.val)]

removeHeld(s, key) ==
    LET r == remove(s, key) IN [s |-> r.s, held |-> Copies(r.val)]

\* the consumer's statement h.held[ i ][ field ] = v
assign(h, i, field, v) ==
    IF h.held[i] = undefined THEN h.s
    ELSE [h.s EXCEPT !.memoObject[IndexOf(h.held[i][1], h.s.memoObject)][field] = v]

-----------------------------------------------------------------------------
(* Listeners: what the callbacks a consumer subscribes do when invoked *)

ListenerFns == {"put", "setMaxAge", "throw"}

\* mutant: the runner has no catch block, whatever a listener throws leaves it
escapes_uncaught(l) == l.listen \in {"throw", "throwNull"}

\* the catch block of the runner reads e.message: when the listener threw
\* null (or undefined) the read itself throws, and that TypeError leaves the
\* runner
escapes(l) == l.listen = "throwNull"

\* getListenerRunner: listener.listen( payload ) inside try/catch. A callback
\* may call back into the map it observes; an error it throws is caught
getListenerRunner(s, l) ==
    CASE l.listen = "put" -> put(s, "a", "x", undefined).s
      [] l.listen = "setMaxAge" -> setMaxEntryAge(s, 2 * (s.maxAge + 1))
      [] OTHER -> s

\* one turn of the for-in loop of Events.emitNow: a registration deleted
\* before its turn is skipped; a once registration is deleted after it ran
runListener(s, l) ==
    IF l \notin s.listeners THEN s
    ELSE IF l.once
        THEN [getListenerRunner(s, l) EXCEPT !.listeners = @ \ {l}]
        ELSE getListenerRunner(s, l)

Invoked(s, l, eventData, log) ==
    IF l \notin s.listeners THEN log
    ELSE Append(log, [what |-> "listener", n |-> l.n,
                      type |-> eventData.type, data |-> eventData.data,
                      pending |-> Cardinality(s.timers)])

\* the for-in loop of Events.emitNow over the registrations of the type; the
\* exception that leaves the runner ends the loop, before the once
\* registration that threw it is deleted
RECURSIVE runNow(_, _, _, _)
runNow(s, ls, eventData, log) ==
    IF ls = <<>> THEN [s |-> s, log |-> log, threw |-> FALSE]
    ELSE IF Head(ls) \in s.listeners /\ escapes(Head(ls))
        THEN [s |-> s, log |-> Invoked(s, Head(ls), eventData, log),
              threw |-> TRUE]
        ELSE runNow(runListener(s, Head(ls)), Tail(ls), eventData,
                    Invoked(s, Head(ls), eventData, log))

Reverse(q) == [i \in 1..Len(q) |-> q[Len(q) + 1 - i]]

\* mutant: the listeners run in the reverse of their registration order
emitNow_reversed(s, type, args) ==
    LET eventData == _calcSharedData(s, type, args)
    IN  IF eventData = undefined THEN [s |-> s, log |-> <<>>, threw |-> FALSE]
        ELSE runNow(s, Reverse(InOrder(OfType(s, type))), eventData[1], <<>>)

\* Events.emitNow
emitNow(s, type, args) ==
    LET eventData == _calcSharedData(s, type, args)
    IN  IF eventData = undefined THEN [s |-> s, log |-> <<>>, threw |-> FALSE]
        ELSE runNow(s, InOrder(OfType(s, type)), eventData[1], <<>>)

\* mutant: the index is the number of registrations held, plus one
on_reuses(s, type, listener, once) ==
    IF type \notin EVENT_TYPE
        THEN [s |-> s, val |-> undefined, threw |-> TRUE]
        ELSE LET regIndex == Cardinality(s.listeners) + 1
             IN  [s |-> [s EXCEPT !.entryCounter = regIndex,
                                  !.listeners = @ \cup
                                      {[n |-> regIndex, type |-> type,
                                        listen |-> listener, once |-> once]}],
                  val |-> <<type, DELIMITER, regIndex>>,
                  threw |-> FALSE]

\* mutant: the counter is advanced before the type is checked
on_countsFirst(s, type, listener, once) ==
    LET regIndex == s.entryCounter + 1
        s1 == [s EXCEPT !.entryCounter = regIndex]
    IN  IF type \notin EVENT_TYPE
            THEN [s |-> s1, val |-> undefined, threw |-> TRUE]
            ELSE [s |-> [s1 EXCEPT !.listeners = @ \cup
                                      {[n |-> regIndex, type |-> type,
                                        listen |-> listener, once |-> once]}],
                  val |-> <<type, DELIMITER, regIndex>>,
                  threw |-> FALSE]

\* mutant: the new registration joins the pending batches of its type
on_joinsPending(s, type, listener, once) ==
    IF type \notin EVENT_TYPE
        THEN [s |-> s, val |-> undefined, threw |-> TRUE]
        ELSE LET regIndex == s.entryCounter + 1
                 reg == [n |-> regIndex, type |-> type,
                         listen |-> listener, once |-> once]
             IN  [s |-> [s EXCEPT
                            !.entryCounter = regIndex,
                            !.listeners = @ \cup {reg},
                            !.tasks = [i \in 1..Len(@) |->
                                IF @[i].eventData.type = type
                                    THEN [@[i] EXCEPT !.listeners = Append(@, reg)]
                                    ELSE @[i]]],
                  val |-> <<type, DELIMITER, regIndex>>,
                  threw |-> FALSE]

\* Events.on, and Events.once, which marks the registration on made
on(s, type, listener, once) ==
    IF type \notin EVENT_TYPE
        THEN [s |-> s, val |-> undefined, threw |-> TRUE]
        ELSE LET regIndex == s.entryCounter + 1
             IN  [s |-> [s EXCEPT !.entryCounter = regIndex,
                                  !.listeners = @ \cup
                                      {[n |-> regIndex, type |-> type,
                                        listen |-> listener, once |-> once]}],
                  val |-> <<type, DELIMITER, regIndex>>,
                  threw |-> FALSE]

\* mutant: the registration stays
off_keeps(s, type, listener) == s

\* Events.off: the first registration of the type with this callback
off(s, type, listener) ==
    LET found == {l \in OfType(s, type) : l.listen = listener}
    IN  IF found = {} THEN s
        ELSE [s EXCEPT !.listeners = @ \ {InOrder(found)[1]}]

\* Events.offById: eventId.split( DELIMITER ) gives the type and the index
offById(s, eventId) ==
    [s EXCEPT !.listeners = {l \in @ : ~(l.type = eventId[1] /\ l.n = eventId[3])}]

-----------------------------------------------------------------------------
(* TimedMap *)


\* data.removed is an array
hasRemovedArray(eventData) == eventData.type \in {"CLEARED", "PRUNED"}

\* data.removed.length, as a listener reads it
removedLength(eventData) ==
    IF hasRemovedArray(eventData) THEN Len(eventData.data[1].removed) ELSE 0

\* the shared payload after the callback of l: e.data.removed.length = 0
\* takes effect on an array that is not frozen, and throws otherwise
payloadAfter(l, eventData) ==
    IF /\ l.listen = "truncate"
       /\ hasRemovedArray(eventData)
       /\ "removed" \notin makeImmutable(eventData.type)
        THEN [eventData EXCEPT !.data[1].removed = <<>>]
        ELSE eventData

\* the callback of a deferred batch runs one listener of its snapshot:
\* listener.listen( payload ) in try/catch; once the driver is detached
\* whatever the callback calls on the map throws, and the throw is caught
deliver(s, l, eventData, detached) ==
    [(IF detached THEN s ELSE getListenerRunner(s, l)) EXCEPT
        !.calls = Append(@, [n |-> l.n, once |-> l.once, type |-> eventData.type]),
        !.seen = Append(@, removedLength(eventData))]

\* Object.values( listeners ).forEach( getListenerRunner( eventData ) )
\* the exception that leaves the runner ends the forEach
RECURSIVE runBatch(_, _, _, _)
runBatch(s, ls, eventData, detached) ==
    IF ls = <<>> THEN s
    ELSE LET d == deliver(s, Head(ls), eventData, detached)
         IN  IF escapes(Head(ls)) THEN d
             ELSE runBatch(d, Tail(ls), payloadAfter(Head(ls), eventData),
                           detached)

\* a step of close() other than a listener, with the timeouts pending after it
Step(what, s) ==
    [what |-> what, n |-> 0, type |-> "", data |-> undefined,
     pending |-> Cardinality(s.timers)]

\* what close() has done once emitNow gave e: delete this._driver is reached
\* unless an exception left emitNow
closing(first, e, detached) ==
    IF e.threw
        THEN [s |-> e.s, log |-> <<first>> \o e.log,
              closed |-> FALSE, threw |-> TRUE]
        ELSE [s |-> e.s, log |-> <<first>> \o e.log \o <<Step("delete", e.s)>>,
              closed |-> detached, threw |-> FALSE]

\* mutant: the batches still pending are cancelled with the timer
close_cancelsBatches(s) ==
    closing(Step("clearTimeout", clearTimeout(s, s.timer)),
            emitNow([clearTimeout(s, s.timer) EXCEPT !.tasks = <<>>],
                    "CLOSING", <<>>), TRUE)

\* mutant: the driver stays attached
close_keepsDriver(s) ==
    closing(Step("clearTimeout", clearTimeout(s, s.timer)),
            emitNow(clearTimeout(s, s.timer), "CLOSING", <<>>), FALSE)

\* TimedMap.close: clearTimeout, emitNow( CLOSING ), delete this._driver;
\* an exception that leaves emitNow leaves close() before the delete
close(s) ==
    closing(Step("clearTimeout", clearTimeout(s, s.timer)),
            emitNow(clearTimeout(s, s.timer), "CLOSING", <<>>), TRUE)

Commit(s) ==
    /\ maxAge' = s.maxAge
    /\ memoObject' = s.memoObject
    /\ pruneDate' = s.pruneDate
    /\ timer' = s.timer
    /\ timers' = s.timers
    /\ listeners' = s.listeners
    /\ entryCounter' = s.entryCounter
    /\ tasks' = s.tasks
    /\ calls' = s.calls
    /\ seen' = s.seen

driverVars == <<maxAge, memoObject, pruneDate, timer, timers, listeners,
                entryCounter, tasks, calls, seen>>

\* a method of TimedMap: this._driver.<op>( ... ) throws a TypeError once
\* _driver is deleted, and else runs the driver's method and returns
Call(s) ==
    /\ IF closed
          THEN /\ ret' = "TypeError"
               /\ UNCHANGED driverVars
          ELSE /\ Commit(s)
               /\ ret' = "returned"
    /\ UNCHANGED <<now, closed, closeLog, quiet>>

Put(key, value, ttl) == Call(put(State, key, value, ttl).s)

Get(key) == Call(get(State, key).s)

GetEntry(key) == Call(getEntry(State, key).s)

Has(key) == Call(has(State, key).s)

Peak(key) == Call(peak(State, key).s)

Remove(key) == Call(remove(State, key).s)

Clear == Call(clear(State))

KeysProp == Call(keys(State).s)

EntriesProp == Call(entries(State).s)

SizeProp == Call(size(State).s)

IsEmptyProp == Call(isEmpty(State).s)

GetMaxEntryAge == Call(State)

SetMaxEntryAge(m) == Call(setMaxEntryAge(State, m))

Close ==
    /\ IF closed
          THEN /\ ret' = "TypeError"
               /\ UNCHANGED <<driverVars, closed, closeLog>>
          ELSE LET c == close(State)
               IN  /\ Commit(c.s)
                   /\ closed' = c.closed
                   /\ closeLog' = c.log
                   /\ ret' = IF c.threw THEN "TypeError" ELSE "returned"
    /\ UNCHANGED <<now, quiet>>

\* a method of TimedMap whose driver call r may throw: what the call did
\* before it threw stays done
CallThrowing(r) ==
    IF ~closed /\ r.threw
        THEN /\ Commit(r.s)
             /\ ret' = "TypeError"
             /\ UNCHANGED <<now, closed, closeLog, quiet>>
        ELSE Call(r.s)

On(type, listener) ==
    /\ closed \/ entryCounter < MaxSubs
    /\ CallThrowing(on(State, type, listener, FALSE))

Once(type, listener) ==
    /\ closed \/ entryCounter < MaxSubs
    /\ CallThrowing(on(State, type, listener, TRUE))

Off(type, listener) == Call(off(State, type, listener))

OffById(eventId) == Call(offById(State, eventId))

-----------------------------------------------------------------------------
(* The runtime *)

\* a millisecond passes; an idle runtime does not sleep past a due timeout
Elapse(maxTime) ==
    /\ now < maxTime
    /\ quiet => \A t \in timers : t.at > now
    /\ now' = now + 1
    /\ UNCHANGED <<driverVars, closed, closeLog, ret, quiet>>

Tick == Elapse(MaxTime)

TickClose == Elapse(MaxTimeClose)

\* a pending timeout of the driver comes due: () => this._prune()
TimerFire ==
    \E t \in timers :
        /\ t.at <= now
        /\ Commit(_prune([State EXCEPT !.timers = @ \ {t}]))
        /\ UNCHANGED <<now, closed, closeLog, ret, quiet>>

\* the oldest deferred batch comes due: the callback emit() gave setTimeout
RunTask ==
    /\ tasks # <<>>
    /\ Len(calls) < MaxCalls
    /\ Commit(runBatch([State EXCEPT !.tasks = Tail(@)], Head(tasks).listeners,
                       Head(tasks).eventData, closed))
    /\ UNCHANGED <<now, closed, closeLog, ret, quiet>>

\* the consumer makes its last call
Quiesce ==
    /\ ~quiet
    /\ ~closed
    /\ quiet' = TRUE
    /\ UNCHANGED <<now, driverVars, closed, closeLog, ret>>

-----------------------------------------------------------------------------
(* Specifications *)

Init ==
    /\ now = 0
    /\ maxAge \in {TimedMap(m) : m \in {undefined} \cup {<<x>> : x \in MaxAgeInputs}}
    /\ memoObject = <<>>
    /\ pruneDate = null
    /\ timer = null
    /\ timers = {}
    /\ listeners = {}
    /\ entryCounter = 0
    /\ tasks = <<>>
    /\ calls = <<>>
    /\ seen = <<>>
    /\ closed = FALSE
    /\ closeLog = <<>>
    /\ ret = "returned"
    /\ quiet = FALSE

\* the calls a consumer makes on the map, on the keys K
StoreCall(K) ==
    \/ \E k \in K, v \in Values, t \in TTLInputs : Put(k, v, t)
    \/ \E k \in K : Get(k)
    \/ \E k \in K : GetEntry(k)
    \/ \E k \in K : Has(k)
    \/ \E k \in K : Peak(k)
    \/ \E k \in K : Remove(k)
    \/ Clear
    \/ KeysProp
    \/ EntriesProp
    \/ SizeProp
    \/ IsEmptyProp
    \/ GetMaxEntryAge
    \/ \E m \in MaxAgeInputs : SetMaxEntryAge(m)
    \/ Close

\* the subscriptions a consumer makes and cancels for one event type
Subscribe(type) ==
    \/ \E l \in ListenerFns : On(type, l)
    \/ \E l \in ListenerFns : Once(type, l)
    \/ \E l \in ListenerFns : Off(type, l)
    \/ \E n \in 1..MaxSubs : OffById(<<type, DELIMITER, n>>)

Next == StoreCall(Keys) \/ Tick \/ TimerFire

\* the store with no observers
Spec == Init /\ [][Next]_vars

NextLive == (~quiet /\ StoreCall(Keys)) \/ Tick \/ TimerFire \/ Quiesce

\* the store whose consumer stops calling at some point, on a runtime that
\* lets time pass and runs every timeout that is due
LiveSpec == Init /\ [][NextLive]_vars /\ WF_vars(Tick) /\ WF_vars(TimerFire)

NextClose ==
    \/ StoreCall({"a"})
    \/ Subscribe("CLOSING")
    \/ TickClose
    \/ TimerFire

\* the store with observers of its closing
SpecClose == Init /\ [][NextClose]_vars

\* the events delivered on a later turn
DeferredTypes == EVENT_TYPE \ {"CLOSING"}

\* a consumer subscribes a callback that does not call back into the map
Observe(type) == On(type, "throw") \/ Once(type, "throw")

\* the calls of a consumer that cause the deferred events, on the key k
EventCall(k) ==
    \/ \E v \in Values : Put(k, v, undefined)
    \/ Get(k)
    \/ GetEntry(k)
    \/ Has(k)
    \/ Peak(k)
    \/ Remove(k)
    \/ Clear
    \/ KeysProp

NextEvents ==
    \/ (Len(tasks) < MaxTasks /\ EventCall("a"))
    \/ \E type \in DeferredTypes : Observe(type)
    \/ TickClose
    \/ TimerFire
    \/ RunTask

\* the store with observers of its deferred events
SpecEvents == Init /\ [][NextEvents]_vars

\* what a consumer may write to an entry it was handed
Writes == <<[field |-> "value", v |-> "z"],
           [field |-> "createdAt", v |-> 0],
           [field |-> "ttl", v |-> <<MaxTTL>>]>>

\* the consumer makes a call and writes to what the call handed out
WriteEntries ==
    \E h \in {entriesHeld(State)} :
        \E i \in 1..Len(h.held), w \in 1..Len(Writes) :
            \E s \in {assign(h, i, Writes[w].field, Writes[w].v)} : Call(s)

WriteGetEntry(key) ==
    \E h \in {getEntryHeld(State, key)} :
        \E i \in 1..Len(h.held), w \in 1..Len(Writes) :
            \E s \in {assign(h, i, Writes[w].field, Writes[w].v)} : Call(s)

WritePut(key, value, ttl) ==
    \E h \in {putHeld(State, key, value, ttl)} :
        \E i \in 1..Len(h.held), w \in 1..Len(Writes) :
            \E s \in {assign(h, i, Writes[w].field, Writes[w].v)} : Call(s)

WriteRemove(key) ==
    \E h \in {removeHeld(State, key)} :
        \E i \in 1..Len(h.held), w \in 1..Len(Writes) :
            \E s \in {assign(h, i, Writes[w].field, Writes[w].v)} : Call(s)

NextAlias ==
    \/ \E v \in Values, t \in TTLInputs : Put("a", v, t)
    \/ Get("a")
    \/ Has("a")
    \/ WriteEntries
    \/ WriteGetEntry("a")
    \/ \E v \in Values : WritePut("a", v, undefined)
    \/ WriteRemove("a")
    \/ Tick
    \/ TimerFire

\* the store whose consumer writes to the entries it was handed
SpecAlias == Init /\ [][NextAlias]_vars

\* the callbacks of observers that write to the payload, or throw
PayloadFns == {"truncate", "throw"}

NextPayload ==
    \/ (Len(tasks) < MaxTasks /\ \E v \in Values : Put("a", v, undefined))
    \/ (Len(tasks) < MaxTasks /\ Clear)
    \/ \E type \in {"CLEARED", "PRUNED"}, l \in PayloadFns : On(type, l)
    \/ \E type \in {"CLEARED", "PRUNED"}, l \in PayloadFns : Once(type, l)
    \/ TickClose
    \/ TimerFire
    \/ RunTask

\* the store whose observers write to the payloads they are given
SpecPayload == Init /\ [][NextPayload]_vars

NextPrune ==
    \/ \E k \in Keys, v \in Values, t \in TTLInputs : Put(k, v, t)
    \/ Observe("PRUNED")
    \/ (Len(tasks) < MaxTasks /\ KeysProp)
    \/ TickClose
    \/ TimerFire
    \/ RunTask

\* the store of entries with TTLs of their own, and observers of its sweeps
SpecPrune == Init /\ [][NextPrune]_vars

\* the callbacks the observers of the deferred events subscribe
ObserverFns == {"put", "throw", "throwNull"}

\* a consumer subscribes under a name that may be no event type
Register(type) ==
    \/ \E l \in ObserverFns : On(type, l)
    \/ \E l \in ObserverFns : Once(type, l)

\* a consumer cancels a subscription, by callback or by id
Cancel(type) ==
    \/ \E l \in ObserverFns : Off(type, l)
    \/ \E n \in 1..MaxSubs : OffById(<<type, DELIMITER, n>>)

\* the event types the consumer of SpecSubs observes
ObservedTypes == {"CLEARED", "PUT"}

NextSubs ==
    \/ (Len(tasks) < MaxTasks /\ \E v \in Values : Put("a", v, undefined))
    \/ (Len(tasks) < MaxTasks /\ Clear)
    \/ \E type \in ObservedTypes \cup (TypeInputs \ EVENT_TYPE) : Register(type)
    \/ \E type \in ObservedTypes : Cancel(type)
    \/ TickClose
    \/ TimerFire
    \/ RunTask

\* what the CLOSING listeners of a store with events pending throw
ClosingFns == {"throw", "throwNull"}

\* the deferred events the consumer of SpecShutdown observes
PendingTypes == {"CLEARED", "PRUNED", "PUT"}

NextShutdown ==
    \/ (Len(tasks) < MaxTasks /\ \E v \in Values : Put("a", v, undefined))
    \/ (Len(tasks) < MaxTasks /\ Clear)
    \/ \E type \in PendingTypes : Observe(type)
    \/ \E l \in ClosingFns : On("CLOSING", l)
    \/ \E l \in ClosingFns : Once("CLOSING", l)
    \/ Close
    \/ TickClose
    \/ TimerFire
    \/ RunTask

\* the store that is closed while events are pending
SpecShutdown == Init /\ [][NextShutdown]_vars

NextClear ==
    \/ \E k \in Keys, v \in Values : Put(k, v, undefined)
    \/ (Len(tasks) + 1 < MaxTasks /\ Clear)
    \/ Observe("CLEARED")
    \/ TickClose
    \/ TimerFire
    \/ RunTask

\* the store that is reset, and observers of the resets
SpecClear == Init /\ [][NextClear]_vars

\* the store whose observers subscribe and cancel while events are pending
SpecSubs == Init /\ [][NextSubs]_vars

-----------------------------------------------------------------------------
(* What the properties speak of *)

Stored(k) == In(k, memoObject)

EntryAt(k) == memoObject[IndexOf(k, memoObject)]

\* ttl ?? maxEntryAge
EffectiveTTL(e) == IF e.ttl = undefined THEN maxAge ELSE e.ttl[1]

Deadline(e) == e.createdAt + EffectiveTTL(e)

Expired(k) == Stored(k) /\ now - EntryAt(k).createdAt >= EffectiveTTL(EntryAt(k))

Valid(k) == Stored(k) /\ now - EntryAt(k).createdAt < EffectiveTTL(EntryAt(k))

\* every query answers that k is not in the map
ReportsAbsent(k) ==
    /\ has(State, k).val = FALSE
    /\ get(State, k).val = undefined
    /\ peak(State, k).val = undefined
    /\ getEntry(State, k).val = undefined
    /\ \A i \in 1..Len(keys(State).val) : keys(State).val[i] # k
    /\ \A i \in 1..Len(entries(State).val) : entries(State).val[i].key # k

PutOn(k) == \E v \in Values, t \in TTLInputs : Put(k, v, t)

\* the reads, the computed properties and the timer-driven sweep
ReadOrSweep ==
    \/ \E k \in Keys : Has(k) \/ Get(k) \/ GetEntry(k) \/ Peak(k)
    \/ KeysProp \/ EntriesProp \/ SizeProp \/ IsEmptyProp
    \/ TimerFire

-----------------------------------------------------------------------------
(* C1 *)

\* the store's TTL is raised while k's entry, which has no ttl of its own, is
\* still in the mapping
RaisedOver(k) == maxAge' > maxAge /\ Stored(k) /\ EntryAt(k).ttl = undefined

\* C1 (as claimed): a key whose entry has reached its effective TTL unread is
\* reported absent by has, get, peak, getEntry, keys and entries, then and at
\* every later moment until the key is put again.
C1_AbsentFromThenOn ==
    /\ [](\A k \in Keys : (~closed /\ ~Valid(k)) => ReportsAbsent(k))
    /\ [][\A k \in Keys : (~closed /\ ~Valid(k) /\ Valid(k)') => PutOn(k)]_vars

\* C1 (amended): a key whose entry has reached its effective TTL unread is
\* reported absent by has, get, peak, getEntry, keys and entries, then and at
\* every later moment until the key is put again or, while the entry is still
\* in the mapping and has no ttl of its own, maxEntryAge is assigned a larger
\* value.
C1_AbsentUntilPutOrRaise ==
    /\ [](\A k \in Keys : (~closed /\ ~Valid(k)) => ReportsAbsent(k))
    /\ [][\A k \in Keys :
            (~closed /\ ~Valid(k) /\ Valid(k)') => (PutOn(k) \/ RaisedOver(k))]_vars

\* an entry with its own ttl has outlived it and is still in the mapping, and
\* every query already reports it absent
C1_Witness ==
    \E k \in Keys :
        /\ ~closed
        /\ Expired(k)
        /\ EntryAt(k).ttl # undefined
        /\ ReportsAbsent(k)

-----------------------------------------------------------------------------
(* C2 *)

\* C2: no read, computed property or timer-driven sweep deletes an entry
\* younger than its effective TTL (its own ttl, else maxEntryAge), and has()
\* reports such an entry, also when its own ttl exceeds maxEntryAge.
C2_NoPrematureEviction ==
    /\ [](\A k \in Keys : (~closed /\ Valid(k)) => has(State, k).val)
    /\ [][\A k \in Keys : (Valid(k) /\ ReadOrSweep) => Stored(k)']_vars

\* an entry with a ttl above maxEntryAge has outlived maxEntryAge, the sweep
\* timer has fired and left it, and has() reports it
C2_Witness ==
    \E k \in Keys :
        /\ ~closed
        /\ Valid(k)
        /\ EntryAt(k).ttl # undefined
        /\ EntryAt(k).ttl[1] > maxAge
        /\ now - EntryAt(k).createdAt >= maxAge
        /\ timers = {}
        /\ has(State, k).val

-----------------------------------------------------------------------------
(* C3 *)

\* the deadline of k in the store s: createdAt + ( ttl ?? maxEntryAge )
DeadlineIn(s, k) ==
    LET e == s.memoObject[IndexOf(k, s.memoObject)]
    IN  e.createdAt + Coalesce(e.ttl, s.maxAge)

\* the read left k stored with createdAt = now
Renewed(r, k) ==
    /\ In(k, r.s.memoObject)
    /\ r.s.memoObject[IndexOf(k, r.s.memoObject)].createdAt = now
    /\ DeadlineIn(r.s, k) = now + EffectiveTTL(EntryAt(k))
    /\ DeadlineIn(r.s, k) >= DeadlineIn(State, k)

\* C3: get(k) and getEntry(k) on a valid key at time t store createdAt = t, so
\* the deadline of k becomes t + (ttl ?? maxEntryAge), never earlier than the
\* deadline before the read.
C3_ReadRenews ==
    /\ [](\A k \in Keys : (~closed /\ Valid(k)) =>
            (Renewed(get(State, k), k) /\ Renewed(getEntry(State, k), k)))
    /\ [][\A k \in Keys :
            (~closed /\ Valid(k) /\ (Get(k) \/ GetEntry(k))) =>
                /\ Stored(k)'
                /\ EntryAt(k)'.createdAt = now
                /\ Deadline(EntryAt(k))' >= Deadline(EntryAt(k))]_vars

\* the store with TTL 2 whose only entry was put at 0 and read at 1 still has
\* the key at 2
C3_Witness ==
    \E k \in Keys :
        /\ ~closed
        /\ maxAge = 2
        /\ now = 2
        /\ Len(memoObject) = 1
        /\ Stored(k)
        /\ EntryAt(k).ttl = undefined
        /\ EntryAt(k).createdAt = 1
        /\ pruneDate = <<2>>
        /\ has(State, k).val

-----------------------------------------------------------------------------
(* C4 *)

\* time enough is left for sweeps maxEntryAge apart to reach every deadline
WithinHorizon ==
    /\ now + maxAge <= MaxTime
    /\ \A i \in 1..Len(memoObject) : Deadline(memoObject[i]) + maxAge <= MaxTime

\* C4: once the consumer has stopped calling an open store, the sweep timer
\* alone eventually deletes every entry stored in it.
C4_SweptWithoutCalls == [](( quiet /\ WithinHorizon) => <>(memoObject = <<>>))

-----------------------------------------------------------------------------
(* C5, C6, C7 *)

\* C5: in an open store with a non-empty mapping a sweep timer is outstanding.
C5_TimerWhileEntries == (~closed /\ memoObject # <<>>) => timers # {}

\* C6: in an open store with a sweep timer outstanding the mapping is
\* non-empty.
C6_EntriesWhileTimer == (~closed /\ timers # {}) => memoObject # <<>>

\* C7: at most one sweep timer of the store is outstanding at any moment.
C7_AtMostOneTimer == Cardinality(timers) <= 1

\* a sweep has been scheduled again: the pending timeout is not the first one
\* the store set
C7_Witness ==
    /\ ~closed
    /\ memoObject # <<>>
    /\ \E t \in timers : t.id = 1 /\ timer = <<1>>

-----------------------------------------------------------------------------
(* C8, C9, C10 *)

\* close() ran to its last statement
CloseReturned == closeLog # <<>> /\ closeLog[Len(closeLog)].what = "delete"

\* any call of the consumer in the store with observers of its closing
AnyCall == StoreCall({"a"}) \/ Subscribe("CLOSING")

\* C8: once close() has returned, every public operation ends with an error
\* and changes nothing.
C8_FailsAfterClose ==
    [][(CloseReturned /\ AnyCall) =>
            (ret' = "TypeError" /\ UNCHANGED <<driverVars, closed, closeLog>>)]_vars

\* a call made after close() has ended with the error
C8_Witness == CloseReturned /\ ret = "TypeError"

\* the CLOSING registrations, in registration order
ClosingListeners == InOrder(OfType(State, "CLOSING"))

\* C9: close() first cancels the sweep timer, then invokes every CLOSING
\* listener once, in registration order, with type CLOSING and data
\* undefined, and only then detaches the driver.
C9_ClosingDispatch ==
    [][(~closed /\ Close) =>
        /\ Len(closeLog') = Len(ClosingListeners) + 2
        /\ closeLog'[1].what = "clearTimeout"
        /\ closeLog'[1].pending = 0
        /\ \A i \in 1..Len(ClosingListeners) :
              /\ closeLog'[i + 1].what = "listener"
              /\ closeLog'[i + 1].n = ClosingListeners[i].n
              /\ closeLog'[i + 1].type = "CLOSING"
              /\ closeLog'[i + 1].data = undefined
        /\ closeLog'[Len(closeLog')].what = "delete"
        /\ closed']_vars

\* a close() that invoked two CLOSING listeners
C9_Witness ==
    /\ Len(closeLog) = 4
    /\ closeLog[2].what = "listener"
    /\ closeLog[3].what = "listener"
    /\ closeLog[2].n < closeLog[3].n

\* C10: after close() has returned no sweep timer of the store is outstanding,
\* whatever the CLOSING listeners did.
C10_NoTimerAfterClose == CloseReturned => timers = {}

-----------------------------------------------------------------------------
(* C11 *)

\* the values a put may be given
AnyValues == Values \cup {"y"}

\* what put(k, v, t) returns and leaves in the mapping
PutResult(k, v, t) ==
    LET r == put(State, k, v, t)
        m == r.s.memoObject
    IN  /\ r.val = (IF Valid(k) THEN <<EntryAt(k)>> ELSE undefined)
        /\ Cardinality({i \in 1..Len(m) : m[i].key = k}) = 1
        /\ m[IndexOf(k, m)] = [createdAt |-> now, key |-> k, ttl |-> t, value |-> v]

\* C11: put(k, v, ttl) returns undefined when k is absent or its entry is
\* prune-eligible and else the prior valid entry, and leaves for k exactly one
\* entry {key: k, value: v, ttl, createdAt: the time of the put}.
C11_PutReplaces ==
    \A k \in Keys, v \in AnyValues, t \in TTLInputs :
        ~closed => PutResult(k, v, t)

\* a valid entry put earlier is about to be overwritten with another value
\* and ttl: put returns it and stamps the new entry with the current time
C11_Witness ==
    \E k \in Keys :
        /\ ~closed
        /\ Valid(k)
        /\ EntryAt(k).createdAt < now
        /\ EntryAt(k).ttl = <<2>>
        /\ put(State, k, "y", <<1>>).val = <<EntryAt(k)>>

-----------------------------------------------------------------------------
(* C12 *)

\* what remove(k) returns and leaves in the mapping
RemoveResult(k) ==
    LET r == remove(State, k)
    IN  /\ r.val = (IF Valid(k) THEN <<EntryAt(k)>> ELSE undefined)
        /\ ~In(k, r.s.memoObject)
        /\ ~has(r.s, k).val

\* C12: remove(k) returns the entry when k holds a valid one and undefined when
\* k is absent or prune-eligible; afterwards k is not in the mapping, and
\* has(k) is false until k is put again.
C12_RemoveDeletes ==
    /\ [](\A k \in Keys : ~closed => RemoveResult(k))
    /\ [](\A k \in Keys : (~closed /\ ~Stored(k)) => ~has(State, k).val)
    /\ [][\A k \in Keys : (~closed /\ ~Stored(k) /\ Stored(k)') => PutOn(k)]_vars

\* a prune-eligible entry is still in the mapping beside a valid one: remove
\* of the first returns undefined, remove of the second returns the entry
C12_Witness ==
    \E k, j \in Keys :
        /\ ~closed
        /\ Expired(k)
        /\ Valid(j)
        /\ remove(State, k).val = undefined
        /\ remove(State, j).val = <<EntryAt(j)>>

-----------------------------------------------------------------------------
(* C13 *)

\* clear() and then put(k, v, t): the sizes reported and the timer started
ClearThenPut(k, v, t) ==
    LET c == clear(State)
        p == put(c, k, v, t).s
    IN  /\ size(c).val = <<0>>
        /\ isEmpty(c).val = <<TRUE>>
        /\ c.memoObject = <<>>
        /\ In(k, p.memoObject)
        /\ size(p).val = <<1>>
        /\ isEmpty(p).val = <<FALSE>>
        /\ p.timer # null
        /\ p.timer # timer
        /\ p.timers = {[id |-> p.timer[1], at |-> now + p.maxAge]}
        /\ p.pruneDate = <<now + p.maxAge>>

\* C13: after clear() size is 0 and isEmpty is true; a put that follows stores
\* its entry, makes size 1 and isEmpty false, and starts a new sweep timer due
\* maxEntryAge later.
C13_ClearThenPut ==
    \A k \in Keys, v \in AnyValues, t \in TTLInputs :
        ~closed => ClearThenPut(k, v, t)

\* a store of two entries with a sweep pending, some time after it was made:
\* clear() empties it and the put after it starts a sweep of its own
C13_Witness ==
    /\ ~closed
    /\ Len(memoObject) = 2
    /\ now > 0
    /\ timers # {}
    /\ clear(State).timers = {}
    /\ \E k \in Keys : put(clear(State), k, "y", undefined).s.timers # {}

-----------------------------------------------------------------------------
(* C14 *)

\* C14: peak(k) on a valid key returns the stored value and leaves the store
\* as it was: the entry, every other entry, maxEntryAge, pruneDate, the timer,
\* the registrations and the pending batches.
C14_PeakLeavesStore ==
    /\ [](\A k \in Keys : (~closed /\ Valid(k)) =>
            peak(State, k) = [s |-> State, val |-> <<EntryAt(k).value>>])
    /\ [][\A k \in Keys :
            (~closed /\ Valid(k) /\ Peak(k)) => UNCHANGED driverVars]_vars

\* a valid entry older than the clock with an AUTO_RENEWED listener watching:
\* a renewal would show, and peak returns the value
C14_Witness ==
    \E k \in Keys :
        /\ ~closed
        /\ Valid(k)
        /\ EntryAt(k).createdAt < now
        /\ _hasTypeListeners(State, "AUTO_RENEWED")
        /\ peak(State, k).val = <<"x">>

-----------------------------------------------------------------------------
(* C15 *)

\* the createdAt stored for k after the read r
CreatedAtAfter(r, k) == r.s.memoObject[IndexOf(k, r.s.memoObject)].createdAt

\* C15 (as claimed): every get(k) or getEntry(k) on a valid key leaves the
\* stored createdAt of k strictly greater than it was before the call.
C15_StrictlyLater ==
    \A k \in Keys : (~closed /\ Valid(k)) =>
        /\ CreatedAtAfter(get(State, k), k) > EntryAt(k).createdAt
        /\ CreatedAtAfter(getEntry(State, k), k) > EntryAt(k).createdAt

\* the read r stamped k with the time of the call
StampedNow(r, k) ==
    /\ CreatedAtAfter(r, k) = now
    /\ CreatedAtAfter(r, k) > EntryAt(k).createdAt <=> now > EntryAt(k).createdAt

\* C15 (amended): every get(k) or getEntry(k) on a valid key leaves the stored
\* createdAt of k equal to the time of the call, which is strictly greater
\* than it was before exactly when the clock has moved on since then.
C15_LaterOnceClockMoved ==
    \A k \in Keys : (~closed /\ Valid(k)) =>
        (StampedNow(get(State, k), k) /\ StampedNow(getEntry(State, k), k))

\* an entry read within the millisecond it was stamped in, some time after
\* the store was made: the read leaves createdAt as it was
C15_Witness ==
    \E k \in Keys :
        /\ ~closed
        /\ Valid(k)
        /\ now > 0
        /\ EntryAt(k).createdAt = now
        /\ CreatedAtAfter(get(State, k), k) = EntryAt(k).createdAt

-----------------------------------------------------------------------------
(* C16, C17, C18 *)

\* C16: peak(k) causes no event to be emitted, whether k is absent, valid or
\* prune-eligible and whichever listeners are registered: it leaves no batch
\* for a listener and removes no once registration.
C16_PeakEmitsNothing ==
    \A k \in Keys : ~closed =>
        /\ peak(State, k).s.tasks = tasks
        /\ peak(State, k).s.listeners = listeners

\* C17: getEntry(k) on a valid key returns the entry as it is stored after
\* the renewal, createdAt included.
C17_GetEntryReturnsRenewed ==
    \A k \in Keys : (~closed /\ Valid(k)) =>
        LET r == getEntry(State, k)
        IN  r.val = <<r.s.memoObject[IndexOf(k, r.s.memoObject)]>>

\* C18: has(k) on a key whose entry is not prune-eligible returns true and
\* changes nothing, however often it is called: the mapping, every createdAt,
\* pruneDate, the timer, the registrations and the pending batches stay.
C18_HasLeavesStore ==
    /\ [](\A k \in Keys : (~closed /\ Valid(k)) =>
            /\ has(State, k) = [s |-> State, val |-> TRUE]
            /\ has(has(State, k).s, k) = [s |-> State, val |-> TRUE])
    /\ [][\A k \in Keys :
            (~closed /\ Valid(k) /\ Has(k)) => UNCHANGED driverVars]_vars

\* a valid entry older than the clock with a REMOVED listener watching: a
\* removal would show, and has answers true
C18_Witness ==
    \E k \in Keys :
        /\ ~closed
        /\ Valid(k)
        /\ EntryAt(k).createdAt < now
        /\ _hasTypeListeners(State, "REMOVED")
        /\ has(State, k).val

-----------------------------------------------------------------------------
(* C19 *)

-----------------------------------------------------------------------------
(* C20 *)

\* how often registration n, subscribed with once, has been or is about to be
\* invoked: by a batch that ran, or by a batch still pending
OnceInvocations(n) ==
    Cardinality({i \in 1..Len(calls) : calls[i].n = n /\ calls[i].once})
    + Cardinality({p \in (1..Len(tasks)) \X (1..MaxSubs) :
            /\ p[2] <= Len(tasks[p[1]].listeners)
            /\ tasks[p[1]].listeners[p[2]].n = n
            /\ tasks[p[1]].listeners[p[2]].once})

\* C20: a listener subscribed with once is invoked at most once in all: the
\* first emit of its type takes it into its batch and deregisters it, so no
\* later emit, made before or after that batch runs, takes it again.
C20_OnceAtMostOnce ==
    /\ \A n \in 1..MaxSubs : OnceInvocations(n) <= 1
    /\ \A l \in listeners : l.once => OnceInvocations(l.n) = 0

\* two CLEARED batches are pending, the second emitted before the first has
\* run: the once registration is in the first only
C20_Witness ==
    /\ Len(tasks) = 2
    /\ tasks[1].eventData.type = "CLEARED"
    /\ tasks[2].eventData.type = "CLEARED"
    /\ Len(tasks[2].listeners) = 1
    /\ \E i \in 1..Len(tasks[1].listeners) :
            /\ tasks[1].listeners[i].once
            /\ tasks[1].listeners[i].n # tasks[2].listeners[1].n

-----------------------------------------------------------------------------
(* Cancellation and subscription *)

\* the registrations a sequence of them holds
Members(ls) == {ls[i] : i \in 1..Len(ls)}

\* the registration off( type, fn ) is to delete, if there is one
Target(type, fn) ==
    LET found == {l \in OfType(State, type) : l.listen = fn}
    IN  IF found = {} THEN {} ELSE {InOrder(found)[1]}

\* C21 as stated: a persistent listener is invoked only while it is
\* registered, so one cancelled while its batch was pending is not invoked
C21_CancelledNotInvoked ==
    [][\A i \in (Len(calls) + 1)..Len(calls') :
          calls'[i].once \/ \E l \in listeners : l.n = calls'[i].n]_vars

\* the listeners of a snapshot its batch gets to: all of them, or those up to
\* the first whose exception leaves the runner
Reached(ls) ==
    LET E == {i \in 1..Len(ls) : escapes(ls[i])}
    IN  IF E = {} THEN ls ELSE SubSeq(ls, 1, MinOf(E))

\* C21, amended: off and offById delete the registration and touch no pending
\* batch; a batch made afterwards holds registered listeners only, and a
\* batch that runs invokes the listeners of its snapshot, cancelled or not
C21_CancelsLaterEmissions ==
    /\ [](\A type \in ObservedTypes, fn \in ObserverFns :
             LET o == off(State, type, fn)
             IN  /\ o.listeners = listeners \ Target(type, fn)
                 /\ o.tasks = tasks)
    /\ [](\A type \in ObservedTypes, n \in 1..MaxSubs :
             LET o == offById(State, <<type, DELIMITER, n>>)
             IN  /\ \A l \in o.listeners : ~(l.type = type /\ l.n = n)
                 /\ o.listeners \subseteq listeners
                 /\ o.tasks = tasks)
    /\ [][\A i \in 1..Len(tasks') :
             \/ tasks'[i] \in Members(tasks)
             \/ Members(tasks'[i].listeners) \subseteq listeners]_vars
    /\ [][calls' # calls =>
             /\ tasks # <<>>
             /\ calls' = calls \o Invocations(Reached(Head(tasks).listeners),
                                               Head(tasks).eventData.type)]_vars

\* a batch is pending for a persistent listener cancelled since the emission
C21_Witness ==
    \E i \in 1..Len(tasks) :
        \E l \in Members(tasks[i].listeners) : ~l.once /\ l \notin listeners

\* C22: on and once with a type that is none of the six throw, and leave
\* the registrations and the subscription counter as they were: so does the
\* call evaluated in any state, and so does every step that ends in the error
C22_InvalidTypeThrows ==
    /\ [](\A type \in TypeInputs \ EVENT_TYPE, fn \in ObserverFns,
             once \in BOOLEAN :
             LET r == on(State, type, fn, once)
             IN  /\ r.threw
                 /\ r.s.listeners = listeners
                 /\ r.s.entryCounter = entryCounter)
    /\ [][(ret # "TypeError" /\ ret' = "TypeError") =>
             listeners' = listeners /\ entryCounter' = entryCounter]_vars

\* a subscription under an invalid type has just failed on a store that
\* holds a registration
C22_Witness == ret = "TypeError" /\ ~closed /\ listeners # {}

\* the indices of the ids given out so far that the state still shows: of the
\* registrations held, of the snapshots pending and of the invocations made
IndicesSeen ==
    {l.n : l \in listeners}
        \cup UNION {{l.n : l \in Members(tasks[i].listeners)} : i \in 1..Len(tasks)}
        \cup {calls[i].n : i \in 1..Len(calls)}

\* C23: the id on or once returns is type@@@n with n one more than the
\* counter, which it becomes; the counter never decreases and bounds every
\* index given out before, so n exceeds them all, removed or not
C23_IdsIncrease ==
    /\ [](\A type \in EVENT_TYPE, fn \in ObserverFns, once \in BOOLEAN :
             LET r == on(State, type, fn, once)
             IN  /\ r.val = <<type, DELIMITER, entryCounter + 1>>
                 /\ r.s.entryCounter = r.val[3]
                 /\ \A n \in IndicesSeen : r.val[3] > n
                 /\ \E l \in r.s.listeners \ listeners :
                        l.n = r.val[3] /\ l.type = type)
    /\ [](\A n \in IndicesSeen : n <= entryCounter)
    /\ [][entryCounter' >= entryCounter]_vars
    /\ [][\A l \in listeners' \ listeners : l.n > entryCounter]_vars

\* the first registration is gone and the one held has the second index
C23_Witness ==
    /\ entryCounter = 2
    /\ listeners # {}
    /\ \A l \in listeners : l.n = 2

-----------------------------------------------------------------------------
(* The payloads of the deferred events *)

\* the batches of an event type among the pending ones
BatchesOf(q, type) == {i \in 1..Len(q) : q[i].eventData.type = type}

Last(q) == q[Len(q)]

\* a step leaves the pending batches as they are, but that the oldest may
\* have run and new ones may have been added behind
PendingKept ==
    \/ /\ Len(tasks') >= Len(tasks)
       /\ SubSeq(tasks', 1, Len(tasks)) = tasks
    \/ /\ tasks # <<>>
       /\ Len(tasks') >= Len(tasks) - 1
       /\ SubSeq(tasks', 1, Len(tasks) - 1) = Tail(tasks)

\* the batch that runs invokes each listener of its snapshot once, in order
RunsSnapshot ==
    calls' # calls =>
        /\ tasks # <<>>
        /\ calls' = calls \o Invocations(Head(tasks).listeners,
                                         Head(tasks).eventData.type)

\* put(k, v, undefined) schedules one PUT batch, for the PUT listeners
\* registered, with the entry it stored and the entry it returns
PutEmits(k, v) ==
    LET r == put(State, k, v, undefined)
        m == r.s.memoObject
    IN  /\ Cardinality(BatchesOf(r.s.tasks, "PUT"))
                = Cardinality(BatchesOf(tasks, "PUT")) + 1
        /\ Last(r.s.tasks).eventData =
                [data |-> <<[current |-> m[IndexOf(k, m)], previous |-> r.val]>>,
                 timestamp |-> now, type |-> "PUT"]
        /\ m[IndexOf(k, m)].value = v
        /\ Last(r.s.tasks).listeners = InOrder(OfType(State, "PUT"))

\* C24: with a PUT listener registered, put schedules exactly one PUT batch for
\* it, whose data is {current: the entry stored, previous: the value put
\* returns}; a pending batch is never altered by what happens to the store
\* before it runs, and when it runs each of its listeners is invoked once.
C24_PutEvent ==
    /\ [](\A v \in AnyValues : OfType(State, "PUT") # {} => PutEmits("a", v))
    /\ [][PendingKept /\ RunsSnapshot]_vars

\* a PUT batch is pending that carries a previous entry, and the store has
\* been emptied since the put
C24_Witness ==
    /\ memoObject = <<>>
    /\ \E i \in BatchesOf(tasks, "PUT") :
            /\ tasks[i].eventData.data[1].previous # undefined
            /\ tasks[i].eventData.data[1].current.value = "x"

\* the read that gave r scheduled one AUTO_RENEWED batch, for the listeners
\* registered, with the createdAt it stored and the one stored before it
RenewEmits(r, k) ==
    LET m == r.s.memoObject
    IN  /\ Cardinality(BatchesOf(r.s.tasks, "AUTO_RENEWED"))
                = Cardinality(BatchesOf(tasks, "AUTO_RENEWED")) + 1
        /\ Last(r.s.tasks).eventData =
                [data |-> <<[key |-> k,
                             createdAt |-> m[IndexOf(k, m)].createdAt,
                             previouslyCreatedAt |-> EntryAt(k).createdAt]>>,
                 timestamp |-> now, type |-> "AUTO_RENEWED"]
        /\ Last(r.s.tasks).listeners = InOrder(OfType(State, "AUTO_RENEWED"))

\* the call that gave r scheduled no AUTO_RENEWED batch
NoRenewal(r) == BatchesOf(r.s.tasks, "AUTO_RENEWED") = BatchesOf(tasks, "AUTO_RENEWED")

\* C25: with an AUTO_RENEWED listener registered, get and getEntry on a valid
\* key schedule exactly one AUTO_RENEWED batch with {key, createdAt: the one
\* newly stored, previouslyCreatedAt: the one stored before the read}; peak,
\* has, and get or getEntry on an absent or prune-eligible key schedule none;
\* the batch runs unaltered and invokes each of its listeners once.
C25_RenewalEvent ==
    /\ [](\A k \in Keys : OfType(State, "AUTO_RENEWED") # {} =>
             /\ Valid(k) => RenewEmits(get(State, k), k)
             /\ Valid(k) => RenewEmits(getEntry(State, k), k)
             /\ ~Valid(k) => NoRenewal(get(State, k))
             /\ ~Valid(k) => NoRenewal(getEntry(State, k))
             /\ NoRenewal(peak(State, k))
             /\ NoRenewal(has(State, k)))
    /\ [][PendingKept /\ RunsSnapshot]_vars

\* an AUTO_RENEWED batch is pending for a read made after the clock moved
C25_Witness ==
    \E i \in BatchesOf(tasks, "AUTO_RENEWED") :
        LET d == tasks[i].eventData.data[1]
        IN  d.createdAt > d.previouslyCreatedAt

\* the entries a sweep made now is to remove
Outdated == SelectSeq(memoObject, LAMBDA e : now - e.createdAt >= EffectiveTTL(e))

\* the sweeps a state may see: the one of the timer that is due, and the
\* ones reading keys, entries, size and isEmpty make
Sweeps ==
    {_prune([State EXCEPT !.timers = @ \ {t}]) : t \in {d \in timers : d.at <= now}}
        \cup {keys(State).s, entries(State).s, size(State).s, isEmpty(State).s}

\* the sweep that gave p scheduled one PRUNED batch
PrunedEmitted(p) ==
    Cardinality(BatchesOf(p.tasks, "PRUNED"))
        = Cardinality(BatchesOf(tasks, "PRUNED")) + 1

\* C26 as stated: with a PRUNED listener registered every sweep schedules a
\* PRUNED batch, also the sweep that removes nothing
C26_EverySweepEmits ==
    OfType(State, "PRUNED") # {} => \A p \in Sweeps : PrunedEmitted(p)

\* C26, amended: with a PRUNED listener registered, a sweep that removes at
\* least one entry schedules one PRUNED batch with {removed: the entries it
\* removed} for the listeners registered; a sweep that removes nothing
\* schedules nothing.
C26_SweepEmitsWhatItRemoved ==
    OfType(State, "PRUNED") # {} =>
        \A p \in Sweeps :
            IF Outdated # <<>>
                THEN /\ PrunedEmitted(p)
                     /\ Last(p.tasks).eventData =
                            [data |-> <<[removed |-> Outdated]>>,
                             timestamp |-> now, type |-> "PRUNED"]
                     /\ Last(p.tasks).listeners = InOrder(OfType(State, "PRUNED"))
                     /\ Len(p.tasks) = Len(tasks) + 1
                ELSE p.tasks = tasks

\* a PRUNED batch is pending with the entry a sweep removed, a PRUNED listener
\* is still registered, and a sweep made now finds nothing to remove
C26_Witness ==
    /\ OfType(State, "PRUNED") # {}
    /\ Outdated = <<>>
    /\ \E i \in BatchesOf(tasks, "PRUNED") :
            Len(tasks[i].eventData.data[1].removed) > 0

\* C27: the batch that runs invokes every listener of its snapshot exactly
\* once, in order, whichever of them throw and whatever they throw: a listener
\* that throws keeps no other listener of the batch from being invoked.
C27_ThrowIsolated ==
    /\ [](tasks # <<>> =>
            LET b == Head(tasks)
                r == runBatch([State EXCEPT !.tasks = Tail(@)], b.listeners,
                              b.eventData, closed)
            IN  r.calls = calls \o Invocations(b.listeners, b.eventData.type))
    /\ [][RunsSnapshot]_vars

-----------------------------------------------------------------------------
(* Ownership of the entries *)

\* a write to any object the call handed out leaves the store as the call
\* left it
Independent(h) ==
    \A i \in 1..Len(h.held), w \in 1..Len(Writes) :
        assign(h, i, Writes[w].field, Writes[w].v) = h.s

\* C28: what entries, keys, getEntry, put and remove hand out are copies: a
\* write to a returned entry changes nothing of the store, so every entry
\* stored is as the store's own operations left it.
C28_CopiesIndependent ==
    /\ Independent(entriesHeld(State))
    /\ Independent(keysHeld(State))
    /\ \A k \in Keys : Independent(getEntryHeld(State, k))
    /\ \A k \in Keys : Independent(removeHeld(State, k))
    /\ \A k \in Keys, v \in Values : Independent(putHeld(State, k, v, undefined))
    /\ \A i \in 1..Len(memoObject) : memoObject[i].value \in Values

\* C29: all the listeners of a batch read the same data, as it was emitted:
\* the removed array has for each the length it had when the batch was
\* scheduled, whatever the listeners before it wrote.
C29_SameDataForAll ==
    [][\A i \in (Len(seen) + 1)..Len(seen') :
          tasks # <<>> /\ seen'[i] = removedLength(Head(tasks).eventData)]_vars

-----------------------------------------------------------------------------
(* TTL input *)

\* a number, given in halves, that is a positive integer
PositiveInteger(x) == x > 0 /\ x % 2 = 0

\* C30: a store constructed with no value or with one that is no positive
\* integer has maxEntryAge 1,800,000; assigning maxEntryAge a value that is no
\* positive integer, or the current value, changes nothing of the store; and
\* maxEntryAge only ever becomes a positive integer that was assigned.
C30_InvalidTTLAbsorbed ==
    /\ [](TimedMap(undefined) = 1800000)
    /\ [](\A x \in MaxAgeInputs : ~PositiveInteger(x) => TimedMap(<<x>>) = 1800000)
    /\ [](\A x \in MaxAgeInputs :
             (~PositiveInteger(x) \/ x = 2 * maxAge) =>
                 setMaxEntryAge(State, x) = State)
    /\ [][maxAge' # maxAge =>
             \E x \in MaxAgeInputs : PositiveInteger(x) /\ x = 2 * maxAge']_vars

\* a store made with the default maxEntryAge holds an entry and a timer
C30_Witness ==
    /\ maxAge = 1800000
    /\ memoObject # <<>>
    /\ timers # {}
    /\ pruneDate # null

\* the assignment maxEntryAge = N made now, with a sweep pending for pruneDate
\* P under the TTL M: what it leaves
Reassigned(N) ==
    LET r == setMaxEntryAge(State, 2 * N)
        P == pruneDate[1]
        M == maxAge
    IN  /\ r.maxAge = N
        /\ r.pruneDate = <<P - M + N>>
        /\ Cardinality(r.timers) = 1
        /\ \A t \in r.timers : t.at = Max(P - M + N, now) /\ r.timer = <<t.id>>
        /\ r.memoObject = memoObject

\* C31: assigning maxEntryAge a different positive integer N while a sweep is
\* pending for pruneDate P under the TTL M leaves maxEntryAge N, pruneDate
\* P - M + N and exactly one sweep pending, due at max(P - M + N, now); the
\* entries are as they were.
C31_SetterShiftsSweep ==
    \A N \in 1..(MaxTTL + 1) :
        (~closed /\ N # maxAge /\ timers # {} /\ pruneDate # null) => Reassigned(N)

\* a sweep is pending that an assignment put at the time of the assignment,
\* the shifted pruneDate being past already
C31_Witness ==
    /\ pruneDate # null
    /\ memoObject # <<>>
    /\ \E t \in timers : t.at > pruneDate[1] /\ timer = <<t.id>>

\* the entries a sweep made now is to keep
Fresh == SelectSeq(memoObject, LAMBDA e : now - e.createdAt < EffectiveTTL(e))

\* C32: a sweep deletes exactly the entries with now - createdAt >= (ttl ??
\* maxEntryAge) and keeps the others as they are, in their order; the PRUNED
\* event it schedules lists exactly the entries deleted, each once.
C32_SweepDeletesOutdated ==
    \A p \in Sweeps :
        /\ p.memoObject = Fresh
        /\ (OfType(State, "PRUNED") # {} /\ Outdated # <<>>) =>
                /\ Last(p.tasks).eventData.type = "PRUNED"
                /\ Last(p.tasks).eventData.data[1].removed = Outdated
                /\ \A i, j \in 1..Len(Outdated) :
                        Outdated[i].key = Outdated[j].key => i = j

\* a sweep has reported the one entry without a ttl of its own, and the entry
\* with one is still stored
C32_Witness ==
    /\ \E i \in BatchesOf(tasks, "PRUNED") :
            /\ Len(tasks[i].eventData.data[1].removed) = 1
            /\ tasks[i].eventData.data[1].removed[1].ttl = undefined
    /\ \E i \in 1..Len(memoObject) :
            memoObject[i].ttl # undefined /\ memoObject[i].createdAt = 0

\* has(k) on a prune-eligible entry: what it returns and leaves
EvictedByHas(k) ==
    LET r == has(State, k)
    IN  /\ r.val = FALSE
        /\ r.s.memoObject = SelectSeq(memoObject, LAMBDA e : e.key # k)
        /\ IF OfType(State, "REMOVED") = {} THEN r.s.tasks = tasks
           ELSE /\ Len(r.s.tasks) = Len(tasks) + 1
                /\ SubSeq(r.s.tasks, 1, Len(tasks)) = tasks
                /\ Last(r.s.tasks).eventData =
                        [data |-> <<[removed |-> undefined]>>,
                         timestamp |-> now, type |-> "REMOVED"]
                /\ Last(r.s.tasks).listeners = InOrder(OfType(State, "REMOVED"))

\* C33: has(k) on a key whose entry is prune-eligible deletes the entry,
\* schedules exactly one REMOVED event with data.removed undefined for the
\* REMOVED listeners and returns false, the sweep timer pending or not.
C33_HasEvictsStale ==
    \A k \in Keys : (~closed /\ Expired(k)) => EvictedByHas(k)

\* a prune-eligible entry is stored while the sweep timer is still pending and
\* a REMOVED listener is registered
C33_Witness ==
    /\ Expired("a")
    /\ timers # {}
    /\ OfType(State, "REMOVED") # {}

\* the states the removing operations may give: remove, clear, the reads
\* that evict a prune-eligible entry (put evicts through _getEntry, before it
\* stores the new entry), and the sweeps
Removals ==
    UNION {{remove(State, k).s, has(State, k).s, get(State, k).s,
            getEntry(State, k).s, peak(State, k).s, _getEntry(State, k).s}
                : k \in Keys}
        \cup {clear(State)} \cup Sweeps

\* C34: an operation that removes entries and leaves the mapping empty has
\* cancelled the sweep timer and reset pruneDate to null.
C34_EmptiedStopsAging ==
    (~closed /\ memoObject # <<>>) =>
        \A r \in Removals :
            r.memoObject = <<>> => r.pruneDate = null /\ r.timers = {}

\* the one entry of the store is prune-eligible while the sweep timer is
\* pending: any of the removing operations empties the mapping
C34_Witness ==
    /\ Len(memoObject) = 1
    /\ Expired(memoObject[1].key)
    /\ pruneDate # null
    /\ \E t \in timers : timer = <<t.id>>

\* the invocations a step adds are made for the oldest pending batch, in the
\* order of its listeners' registration, and the batches behind it stay next
OldestRuns ==
    LET ran == SubSeq(calls', Len(calls) + 1, Len(calls'))
        batch == Head(tasks)
    IN  /\ tasks # <<>>
        /\ Len(calls') > Len(calls)
        /\ SubSeq(calls', 1, Len(calls)) = calls
        /\ Len(ran) <= Len(batch.listeners)
        /\ \A i \in 1..Len(ran) :
                /\ ran[i].type = batch.eventData.type
                /\ ran[i].n = batch.listeners[i].n
                /\ i > 1 => ran[i - 1].n < ran[i].n
        /\ Len(tasks') >= Len(tasks) - 1
        /\ SubSeq(tasks', 1, Len(tasks) - 1) = Tail(tasks)

\* a step that invokes no listener leaves the pending batches in place and
\* puts the ones it makes behind them
NewestLast ==
    /\ Len(tasks') >= Len(tasks)
    /\ SubSeq(tasks', 1, Len(tasks)) = tasks

\* C35: batches are delivered in the order of their emit calls, each batch
\* whole before the next, and within a batch the listeners run in the order
\* of their registration.
C35_BatchesInEmitOrder ==
    [][IF calls' # calls THEN OldestRuns ELSE NewestLast]_vars

\* a batch of two listeners has run while a later one is pending
C35_Witness ==
    /\ Len(calls) >= 2
    /\ calls[1].n < calls[2].n
    /\ calls[1].type = calls[2].type
    /\ tasks # <<>>

\* subscribing leaves every pending batch as it is
SubscribingKeepsBatches ==
    \A type \in ObservedTypes, fn \in ObserverFns, once \in BOOLEAN :
        on(State, type, fn, once).s.tasks = tasks

\* with no listener of its event registered an operation schedules nothing
UnobservedSchedulesNothing ==
    /\ OfType(State, "PUT") = {} =>
            \A v \in AnyValues : put(State, "a", v, undefined).s.tasks = tasks
    /\ OfType(State, "CLEARED") = {} => clear(State).tasks = tasks

\* C36: the listeners of an emission are those registered at the emit call:
\* a later subscription joins no pending batch, a batch that runs invokes
\* listeners of its snapshot only, and an emit with no listener of the type
\* registered schedules nothing.
C36_ListenersFixedAtEmit ==
    /\ [](SubscribingKeepsBatches /\ UnobservedSchedulesNothing)
    /\ [][\A i \in 1..Len(tasks') :
             \/ tasks'[i] \in Members(tasks)
             \/ /\ tasks'[i].listeners # <<>>
                /\ Members(tasks'[i].listeners)
                        \subseteq OfType(State, tasks'[i].eventData.type)]_vars
    /\ [][\A j \in (Len(calls) + 1)..Len(calls') :
             /\ tasks # <<>>
             /\ \E l \in Members(Head(tasks).listeners) :
                    /\ l.n = calls'[j].n
                    /\ l.type = calls'[j].type]_vars

\* a batch is pending and a listener of its type was registered after every
\* listener of the batch
C36_Witness ==
    \E i \in 1..Len(tasks) :
        \E l \in OfType(State, tasks[i].eventData.type) :
            \A m \in Members(tasks[i].listeners) : l.n > m.n

\* what close() does when the CLOSING listeners are those of L and the ones
\* of E among them throw what the runner does not catch
Closes(c, L, E) ==
    IF E = {}
        THEN /\ ~c.threw
             /\ c.closed
             /\ Len(SelectSeq(c.log, LAMBDA x : x.what = "listener")) = Len(L)
             /\ c.log[Len(c.log)].what = "delete"
        ELSE /\ c.threw
             /\ ~c.closed
             /\ Len(SelectSeq(c.log, LAMBDA x : x.what = "listener")) = MinOf(E)
             /\ c.log[Len(c.log)].what = "listener"

\* a CLOSING listener that throws an error ran in the close() logged
ThrowerRan ==
    \E i \in 1..Len(closeLog) :
        /\ closeLog[i].what = "listener"
        /\ \E l \in OfType(State, "CLOSING") :
                l.n = closeLog[i].n /\ l.listen = "throw"

\* C37 as stated: a close() in which a CLOSING listener threw an error does
\* not run to its end and return
C37_ThrowPropagates == ThrowerRan => ~(CloseReturned /\ ret = "returned")

\* C37, amended: the runner of emitNow catches the error a CLOSING listener
\* throws, so close() goes on to the next listener, detaches and returns;
\* only a listener throwing null or undefined ends close() with a TypeError,
\* the later listeners not invoked and the store still attached.
C37_ThrowAbsorbed ==
    /\ [](~closed =>
            Closes(close(State), ClosingListeners,
                   {i \in 1..Len(ClosingListeners) :
                        ClosingListeners[i].listen = "throwNull"}))
    /\ [][(~closed /\ closed') => ret' = "returned"]_vars
    /\ [][(~closed /\ closeLog' # closeLog /\ ~closed') => ret' = "TypeError"]_vars

\* a close() returned although a CLOSING listener threw an error in it
C37_Witness == ThrowerRan /\ CloseReturned /\ closed /\ ret = "returned"

\* what clear() gave, c, for the store of this state
Cleared(c) ==
    IF memoObject = <<>> THEN c = State
    ELSE /\ c.memoObject = <<>>
         /\ \A i, j \in 1..Len(memoObject) :
                memoObject[i].key = memoObject[j].key => i = j
         /\ IF OfType(State, "CLEARED") = {} THEN c.tasks = tasks
            ELSE /\ Len(c.tasks) = Len(tasks) + 1
                 /\ SubSeq(c.tasks, 1, Len(tasks)) = tasks
                 /\ Last(c.tasks).eventData =
                        [data |-> <<[removed |-> memoObject]>>,
                         timestamp |-> now, type |-> "CLEARED"]
                 /\ Last(c.tasks).listeners = InOrder(OfType(State, "CLEARED"))

\* C38: clear() on a non-empty store empties it and schedules exactly one
\* CLEARED event for the CLEARED listeners, whose data.removed holds every
\* entry of the mapping once, prune-eligible or not; on an empty store it
\* changes nothing and schedules nothing.
C38_ClearReportsAll == ~closed => Cleared(clear(State))

\* a CLEARED event is pending for two entries, one of them prune-eligible
\* when the store was cleared
C38_Witness ==
    \E i \in BatchesOf(tasks, "CLEARED") :
        LET removed == tasks[i].eventData.data[1].removed
        IN  /\ Len(removed) = 2
            /\ \E j \in 1..2 :
                    tasks[i].eventData.timestamp - removed[j].createdAt
                        >= EffectiveTTL(removed[j])

\* the oldest pending batch runs on the detached store as on the attached
\* one: r is what its callback gives
DeliveredDetached(r) ==
    /\ r.calls = calls \o Invocations(Reached(Head(tasks).listeners),
                                       Head(tasks).eventData.type)
    /\ r.tasks = Tail(tasks)

EvictsThenPuts(r, k, v) ==
    LET n == Len(tasks)
        entry == [createdAt |-> now, key |-> k, ttl |-> undefined, value |-> v]
    IN  /\ r.val = undefined
        /\ Len(r.s.tasks) = n + 2
        /\ SubSeq(r.s.tasks, 1, n) = tasks
        /\ r.s.tasks[n + 1].eventData =
                [data |-> <<[removed |-> undefined]>>,
                 timestamp |-> now, type |-> "REMOVED"]
        /\ r.s.tasks[n + 1].listeners = InOrder(OfType(State, "REMOVED"))
        /\ r.s.tasks[n + 2].eventData =
                [data |-> <<[current |-> entry, previous |-> undefined]>>,
                 timestamp |-> now, type |-> "PUT"]
        /\ r.s.tasks[n + 2].listeners = InOrder(OfType(State, "PUT"))
        /\ r.s.memoObject = <<entry>>

\* C40: put on a key whose entry is prune-eligible evicts the entry first:
\* with REMOVED and PUT listeners registered it schedules a REMOVED event
\* with data.removed undefined and then a PUT event with data.previous
\* undefined, and returns undefined.
C40_PutEvictsFirst ==
    \A v \in AnyValues :
        (~closed /\ Expired("a")
            /\ OfType(State, "REMOVED") # {} /\ OfType(State, "PUT") # {})
        => EvictsThenPuts(put(State, "a", v, undefined), "a", v)

\* the REMOVED batch of an eviction is pending, and behind it the PUT batch
\* of the same moment with no previous entry
C40_Witness ==
    /\ Len(tasks) = 2
    /\ tasks[1].eventData.type = "REMOVED"
    /\ tasks[1].eventData.data[1].removed = undefined
    /\ tasks[2].eventData.type = "PUT"
    /\ tasks[2].eventData.data[1].previous = undefined
    /\ tasks[1].eventData.timestamp = tasks[2].eventData.timestamp

====
